---- MODULE Spec2Model ----
(***************************************************************************)
(* Model of lite_unit_test.py: the UnitTest harness, its work queue, the   *)
(* two result queues, the counter queue, the worker loop                   *)
(* (_execute_synchronously), the print process (_execute_print_queue) and  *)
(* the two execution modes execute() and execute_async().                  *)
(*                                                                         *)
(* multiprocessing.Queue is modelled as it works: put() appends to a       *)
(* buffer of the calling process, a feeder thread of that process moves    *)
(* the buffered items to the pipe one by one, and empty() and get() see    *)
(* the pipe only.  get() blocks while the pipe is empty and get(True, t)   *)
(* raises queue.Empty when nothing arrives in time.  A child process       *)
(* flushes its buffers before it exits.  Time is not modelled: a timed get *)
(* may time out whenever the pipe is empty at that moment.                 *)
(***************************************************************************)
EXTENDS Integers, Sequences, FiniteSets, TLC

\* ------------------------------------------------------------------ bounds
\* Largest number of tests added (SpecSync, SpecSmallHost).
MaxTests == 2
\* Largest number of tests added when every host is considered (Spec).
MaxAsyncTests == 1
\* Largest value of multiprocessing.cpu_count() considered.
MaxCpu == 4
\* Largest number of items in the dict handed to multi_init.
MaxDictLen == 2
\* Largest number of elements of an iterable expected value.
MaxRhsLen == 2
\* Largest number of add_test calls on the dict-based harness.
MaxDictTests == 3

\* ------------------------------------------------------- Python values
\* A Python int or str value.  Only the field named by type is meaningful.
IntVal(n) == [type |-> "int", i |-> n, s |-> ""]
StrVal(t) == [type |-> "str", i |-> 0, s |-> t]

Digit(d) ==
    CASE d = 0 -> "0" [] d = 1 -> "1" [] d = 2 -> "2" [] d = 3 -> "3"
      [] d = 4 -> "4" [] d = 5 -> "5" [] d = 6 -> "6" [] d = 7 -> "7"
      [] d = 8 -> "8" [] d = 9 -> "9"

RECURSIVE NatToStr(_)
NatToStr(n) == IF n < 10 THEN Digit(n) ELSE NatToStr(n \div 10) \o Digit(n % 10)

\* str(x) for an int or a str
Str(x) ==
    IF x.type = "str" THEN x.s
    ELSE IF x.i < 0 THEN "-" \o NatToStr(-x.i) ELSE NatToStr(x.i)

\* The result of calling Python code: a returned value, a raised exception
\* that derives from Exception, or a raised exception that does not
\* (SystemExit, KeyboardInterrupt, GeneratorExit).
Return(v) == [st |-> "ok", val |-> v, truth |-> FALSE]
ReturnBool(b) == [st |-> "ok", val |-> IntVal(0), truth |-> b]
RaiseException == [st |-> "Exception", val |-> IntVal(0), truth |-> FALSE]
RaiseBaseException == [st |-> "BaseException", val |-> IntVal(0), truth |-> FALSE]

\* ------------------------------------------------------ target callables
\* test_func(inp): raises ZeroDivisionError for a str, else returns 2.
test_func(inp) == IF inp.type = "str" THEN RaiseException ELSE Return(IntVal(2))

\* return_1_increment(val): val + 1; str + int raises TypeError.
return_1_increment(val) ==
    IF val.type = "str" THEN RaiseException ELSE Return(IntVal(val.i + 1))

\* sys.exit(arg), a target a caller may register: raises SystemExit.
sys_exit(arg) == RaiseBaseException

\* self.func_ptr(*self.func_arg)
CallFunc(func_ptr, func_arg) ==
    CASE func_ptr = "test_func" -> test_func(func_arg[1])
      [] func_ptr = "return_1_increment" -> return_1_increment(func_arg[1])
      [] func_ptr = "exit" -> sys_exit(func_arg[1])

\* --------------------------------------------------- equality predicates
in_set_wrapper(element, set_) == ReturnBool(Str(element) \in set_)

\* str_in_set reads the undefined name rhs_set: NameError on every call.
str_in_set(lhs, rhs_iter) == RaiseException

CallEqual(equal_func_ptr, output, rhs) ==
    CASE equal_func_ptr = "in_set_wrapper" -> in_set_wrapper(output, rhs)
      [] equal_func_ptr = "str_in_set" -> str_in_set(output, rhs)

\* --------------------------------------------------------- TestEntry
\* id is the position at which the entry was enqueued (object identity).
TestEntry(id, func_ptr, equal_func_ptr, equal_func_rhs, func_arg) ==
    [id |-> id, func_ptr |-> func_ptr, equal_func_ptr |-> equal_func_ptr,
     equal_func_rhs |-> equal_func_rhs, func_arg |-> func_arg]

lazy_init(id, func_ptr, expected_str_out_set, func_arg) ==
    TestEntry(id, func_ptr, "in_set_wrapper", expected_str_out_set, func_arg)

NoTest == TestEntry(0, "none", "none", {}, <<>>)

\* A line of text, on a queue or on stdout: its kind and up to two numbers.
Line(kind, a, b) == [kind |-> kind, a |-> a, b |-> b]
NoLine == Line("", 0, 0)

\* TestEntry.execute: what it publishes and whether an exception leaves it.
\*   chan = "passed"      utest.passed.put("Passed: ...")
\*   chan = "print_queue" utest.print_queue.put("Failed: ...")
\*   chan = "none"        nothing was put; the exception propagates
PublishOnException(test) ==
    [chan |-> "print_queue", msg |-> Line("Error", test.id, 0), escapes |-> FALSE]

\* Variant of PublishOnReturn with a slip: the else branch left out.
PublishOnReturnNoElse(test, output_is_expected) ==
    IF output_is_expected
    THEN [chan |-> "passed", msg |-> Line("Passed", test.id, 0), escapes |-> FALSE]
    ELSE [chan |-> "none", msg |-> NoLine, escapes |-> FALSE]

PublishOnReturn(test, output_is_expected) ==
    IF output_is_expected
    THEN [chan |-> "passed", msg |-> Line("Passed", test.id, 0), escapes |-> FALSE]
    ELSE [chan |-> "print_queue", msg |-> Line("Failed", test.id, 0), escapes |-> FALSE]

Escape == [chan |-> "none", msg |-> NoLine, escapes |-> TRUE]

\* except Exception: catches what derives from Exception and nothing else.
ExceptClause(st, test) ==
    IF st = "Exception" THEN PublishOnException(test) ELSE Escape

TestEntryExecute(test) ==
    LET output == CallFunc(test.func_ptr, test.func_arg) IN
    IF output.st # "ok" THEN ExceptClause(output.st, test)
    ELSE LET eq == CallEqual(test.equal_func_ptr, output.val, test.equal_func_rhs) IN
         IF eq.st # "ok" THEN ExceptClause(eq.st, test)
         ELSE PublishOnReturn(test, eq.truth)

\* ------------------------------------------------- multiprocessing.Queue
\* A queue is the buffers of the processes that put to it and the pipe.
\* put(x) by process p: the item goes to p's buffer.
QueuePut(q, p, x) == [q EXCEPT !.buffer[p] = Append(@, x)]
\* p's feeder thread sends the oldest buffered item.
QueueFeed(q, p) ==
    [buffer |-> [q.buffer EXCEPT ![p] = Tail(@)],
     pipe |-> Append(q.pipe, Head(q.buffer[p]))]
\* empty(): nothing to read from the pipe
QueueEmpty(q) == q.pipe = <<>>
\* get(): the item read from the pipe, and the queue without it
QueueFront(q) == Head(q.pipe)
\* Variant of QueueRest with a slip: get() leaves the item on the queue.
QueueRestKeepsItem(q) == q
QueueRest(q) == [q EXCEPT !.pipe = Tail(@)]
\* p's feeder thread has sent everything p has put
Flushed(q, p) == q.buffer[p] = <<>>

\* ------------------------------------------------------------------ state
VARIABLES
    cpu_count,          \* multiprocessing.cpu_count() of the host
    test_queue,         \* UnitTest.test_queue
    print_queue,        \* UnitTest.print_queue
    passed,             \* UnitTest.passed
    count,              \* UnitTest.count, a queue holding the counter
    total,              \* UnitTest.total
    hpc,                \* where the harness (main process) is
    nspawn,             \* worker processes started so far
    all_joined,         \* all_joined[0] in the harness process
    proceses_joined,    \* proceses_joined[0] in the print process (its copy)
    counts_per_update,  \* tests_per_print handed to the print process
    wpc,                \* where each run of _execute_synchronously is
    wtest,              \* its local variable test
    apc,                \* where _execute_print_queue is
    txt,                \* its local txt
    passed_msg,         \* its local passed
    passed_str,         \* its local passed_str: the ids accumulated
    i,                  \* its local i
    out,                \* stdout, in order
    added,              \* history: the entries enqueued, in order
    delivered,          \* history: times test_q.get() returned each entry
    executed,           \* history: times TestEntry.execute ran for each entry
    caller_set,         \* the set object a caller hands to add_test
    func_arg_2_equal_rhs, \* multi_init: the dict argument, in iteration order
    get_each_equal_rhs, \* multi_init: the expansion flag
    ret_val,            \* multi_init: the set of TestEntry objects built so far
    mnext,              \* multi_init: position of the next dict item
    mpc,                \* multi_init: "idle", "loop" or "returned"
    in2out,             \* LiteUnitTest.UnitTest.in2out, in insertion order
    lut_total,          \* LiteUnitTest.UnitTest.total
    lut_passed,         \* LiteUnitTest.UnitTest.passed
    lut_pc,             \* LiteUnitTest: "building", "executing" or "done"
    lut_next,           \* LiteUnitTest.execute: position of the next item
    lut_out             \* LiteUnitTest.execute: lines printed

vars == <<cpu_count, test_queue, print_queue, passed, count, total, hpc, nspawn,
          all_joined, proceses_joined, counts_per_update, wpc, wtest, apc, txt,
          passed_msg, passed_str, i, out, added, delivered, executed,
          caller_set, func_arg_2_equal_rhs, get_each_equal_rhs, ret_val,
          mnext, mpc, in2out, lut_total, lut_passed, lut_pc, lut_next,
          lut_out>>

queues == <<test_queue, print_queue, passed, count>>
aggVars == <<apc, txt, passed_msg, passed_str, i, proceses_joined, counts_per_update>>
workerVars == <<wpc, wtest>>
history == <<added, delivered, executed>>
multiInitVars == <<func_arg_2_equal_rhs, get_each_equal_rhs, ret_val, mnext, mpc>>
dictVars == <<in2out, lut_total, lut_passed, lut_pc, lut_next, lut_out>>
callerVars == <<caller_set, multiInitVars, dictVars>>

\* UnitTest.PROCESSES
PROCESSES == cpu_count - 2
\* range(max(self.PROCESSES, 1))
WorkerCount == IF PROCESSES > 1 THEN PROCESSES ELSE 1
MaxWorkerCount == IF MaxCpu - 2 > 1 THEN MaxCpu - 2 ELSE 1

\* Process 0 is the harness running _execute_synchronously itself (execute());
\* 1..MaxWorkerCount are the worker processes of execute_async().
Procs == 0..MaxWorkerCount
Harness == 0
\* The print process, as a process that puts to a queue.
PrintProc == MaxWorkerCount + 1
Feeders == Procs \cup {PrintProc}
\* multiprocessing.Queue()
NewQueue == [buffer |-> [p \in Feeders |-> <<>>], pipe |-> <<>>]
Ids == 1..(MaxTests + MaxAsyncTests + 1)

\* The set a caller builds once and hands to add_test: {2, "1"}.
CallerSet == {IntVal(2), StrVal("1")}

\* No call of multi_init is in progress.
NoMultiInit ==
    /\ func_arg_2_equal_rhs = <<>>
    /\ get_each_equal_rhs = FALSE
    /\ ret_val = <<>>
    /\ mnext = 1
    /\ mpc = "idle"

InitProgram ==
    /\ cpu_count \in 1..MaxCpu
    /\ test_queue = NewQueue
    /\ print_queue = NewQueue
    /\ total = 0
    /\ passed = NewQueue
    /\ count = QueuePut(NewQueue, Harness, 0)
    /\ hpc = "building"
    /\ nspawn = 0
    /\ all_joined = FALSE
    /\ proceses_joined = FALSE
    /\ counts_per_update = 200
    /\ wpc = [w \in Procs |-> "idle"]
    /\ wtest = [w \in Procs |-> NoTest]
    /\ apc = "idle"
    /\ txt = NoLine
    /\ passed_msg = NoLine
    /\ passed_str = <<>>
    /\ i = 0
    /\ out = <<>>
    /\ added = <<>>
    /\ delivered = [d \in Ids |-> 0]
    /\ executed = [d \in Ids |-> 0]
    /\ caller_set = CallerSet

\* LiteUnitTest.UnitTest.__init__
InitLiteUnitTest ==
    /\ in2out = <<>>
    /\ lut_total = 0
    /\ lut_passed = 0
    /\ lut_pc = "building"
    /\ lut_next = 1
    /\ lut_out = <<>>

Init == InitProgram /\ NoMultiInit /\ InitLiteUnitTest

\* ------------------------------------------------------------ add_test
\* The caller's expected value: a set of values, or one value that is no set.
Scalar(v) == [isset |-> FALSE, elems |-> {v}]
SetOf(S) == [isset |-> TRUE, elems |-> S]

\* if type(...) is not set: wrap; then pop every element and convert to str
StrSet(expected_str_out_set) == { Str(e) : e \in expected_str_out_set.elems }

\* while len(expected_str_out_set) > 0: expected_str_out_set.pop()
\* A set argument is the caller's own object, and the loop pops it empty.
RECURSIVE PopAll(_)
PopAll(S) == IF S = {} THEN S ELSE PopAll(S \ {CHOOSE x \in S : TRUE})

\* The caller's set object, passed as the expected value.
CallerSetArg == SetOf(caller_set)

AddTest(funcs, expecteds, args, max) ==
    /\ hpc = "building"
    /\ total < max
    /\ \E func \in funcs, expected \in expecteds, f_arg \in args :
         LET entry == lazy_init(total + 1, func, StrSet(expected), <<f_arg>>) IN
         /\ test_queue' = QueuePut(test_queue, Harness, entry)
         /\ added' = Append(added, entry)
         /\ caller_set' = IF expected.isset THEN PopAll(caller_set) ELSE caller_set
    /\ total' = total + 1
    /\ UNCHANGED <<multiInitVars, dictVars, cpu_count, print_queue, passed,
                   count, hpc, nspawn,
                   all_joined, out, delivered, executed>>
    /\ UNCHANGED <<aggVars, workerVars>>

\* add_tests(*entries): every entry is put and counted, in order.
RECURSIVE PutAll(_, _, _)
PutAll(q, entries, n) ==
    IF entries = <<>> THEN q
    ELSE PutAll(QueuePut(q, Harness, [Head(entries) EXCEPT !.id = n + 1]),
                Tail(entries), n + 1)

\* Variant of AddTests with a slip: total counts the call, not the entries.
AddTestsCountsCall(pool, max) ==
    /\ hpc = "building"
    /\ \E k \in 1..2 : \E entries \in [1..k -> pool] :
         /\ total + k <= max
         /\ test_queue' = PutAll(test_queue, entries, total)
         /\ added' = added \o [n \in 1..k |-> [entries[n] EXCEPT !.id = total + n]]
         /\ total' = total + 1
    /\ UNCHANGED <<callerVars, cpu_count, print_queue, passed, count, hpc,
                   nspawn, all_joined, out, delivered, executed>>
    /\ UNCHANGED <<aggVars, workerVars>>

AddTests(pool, max) ==
    /\ hpc = "building"
    /\ \E k \in 1..2 : \E entries \in [1..k -> pool] :
         /\ total + k <= max
         /\ test_queue' = PutAll(test_queue, entries, total)
         /\ added' = added \o [n \in 1..k |-> [entries[n] EXCEPT !.id = total + n]]
         /\ total' = total + k
    /\ UNCHANGED <<callerVars, cpu_count, print_queue, passed, count, hpc,
                   nspawn, all_joined, out, delivered, executed>>
    /\ UNCHANGED <<aggVars, workerVars>>

\* -------------------------------------------------- _execute_synchronously
\* print_queue.put("PID #{} should be started.")
WorkerStart(w) ==
    /\ wpc[w] = "start"
    /\ print_queue' = QueuePut(print_queue, w, Line("PidStart", w, 0))
    /\ wpc' = [wpc EXCEPT ![w] = "check"]
    /\ UNCHANGED <<callerVars, cpu_count, test_queue, passed, count, total,
                   hpc, nspawn, all_joined, wtest, out>>
    /\ UNCHANGED <<aggVars, history>>

\* while not test_q.empty():
WorkerCheck(w) ==
    /\ wpc[w] = "check"
    /\ wpc' = [wpc EXCEPT ![w] = IF QueueEmpty(test_queue) THEN "leave" ELSE "get"]
    /\ UNCHANGED <<callerVars, cpu_count, queues, total, hpc, nspawn,
                   all_joined, wtest, out>>
    /\ UNCHANGED <<aggVars, history>>

\* test = test_q.get(): blocks for as long as the queue is empty
WorkerGet(w) ==
    /\ wpc[w] = "get"
    /\ ~QueueEmpty(test_queue)
    /\ wtest' = [wtest EXCEPT ![w] = QueueFront(test_queue)]
    /\ test_queue' = QueueRest(test_queue)
    /\ delivered' = [delivered EXCEPT ![QueueFront(test_queue).id] = @ + 1]
    /\ wpc' = [wpc EXCEPT ![w] = "execute"]
    /\ UNCHANGED <<callerVars, cpu_count, print_queue, passed, count, total,
                   hpc, nspawn, all_joined, out, added, executed>>
    /\ UNCHANGED aggVars

\* test.execute(utest).  An exception that leaves it ends the process; in
\* execute() the process is the caller's, and execute() is left by it.
WorkerExecute(w) ==
    /\ wpc[w] = "execute"
    /\ LET r == TestEntryExecute(wtest[w]) IN
       /\ print_queue' = IF r.chan = "print_queue"
                          THEN QueuePut(print_queue, w, r.msg) ELSE print_queue
       /\ passed' = IF r.chan = "passed"
                     THEN QueuePut(passed, w, r.msg) ELSE passed
       /\ wpc' = [wpc EXCEPT ![w] = IF r.escapes THEN "raised" ELSE "check"]
       /\ hpc' = IF r.escapes /\ w = 0 THEN "raised" ELSE hpc
    /\ executed' = [executed EXCEPT ![wtest[w].id] = @ + 1]
    /\ wtest' = [wtest EXCEPT ![w] = NoTest]
    /\ UNCHANGED <<callerVars, cpu_count, test_queue, count, total, nspawn,
                   all_joined, out, added, delivered>>
    /\ UNCHANGED aggVars

\* print_queue.put("PID #{} should be joined."); return True.  In execute()
\* the return hands control back to the harness.
WorkerLeave(w) ==
    /\ wpc[w] = "leave"
    /\ print_queue' = QueuePut(print_queue, w, Line("PidJoin", w, 0))
    /\ wpc' = [wpc EXCEPT ![w] = "done"]
    /\ hpc' = IF w = 0 THEN "sync_print" ELSE hpc
    /\ UNCHANGED <<callerVars, cpu_count, test_queue, passed, count, total,
                   nspawn, all_joined, wtest, out>>
    /\ UNCHANGED <<aggVars, history>>

Worker(w) ==
    \/ WorkerStart(w)
    \/ WorkerCheck(w)
    \/ WorkerGet(w)
    \/ WorkerExecute(w)
    \/ WorkerLeave(w)

\* A run of the worker loop that has ended: returned, or left by an
\* exception.
Finished(w) == wpc[w] \in {"done", "raised"}
\* A worker process that has exited: on its way out it waits for its feeder
\* threads to send what it has put.
Exited(w) ==
    Finished(w) /\ Flushed(print_queue, w) /\ Flushed(passed, w)
\* The print process has exited.
PrintExited == apc = "done" /\ Flushed(count, PrintProc)

\* ------------------------------------------------------ feeder threads
FeedTestQueue(p) ==
    /\ ~Flushed(test_queue, p)
    /\ test_queue' = QueueFeed(test_queue, p)
    /\ UNCHANGED <<callerVars, cpu_count, print_queue, passed, count, total,
                   hpc, nspawn, all_joined, out>>
    /\ UNCHANGED <<aggVars, workerVars, history>>

FeedPrintQueue(p) ==
    /\ ~Flushed(print_queue, p)
    /\ print_queue' = QueueFeed(print_queue, p)
    /\ UNCHANGED <<callerVars, cpu_count, test_queue, passed, count, total,
                   hpc, nspawn, all_joined, out>>
    /\ UNCHANGED <<aggVars, workerVars, history>>

FeedPassed(p) ==
    /\ ~Flushed(passed, p)
    /\ passed' = QueueFeed(passed, p)
    /\ UNCHANGED <<callerVars, cpu_count, test_queue, print_queue, count,
                   total, hpc, nspawn, all_joined, out>>
    /\ UNCHANGED <<aggVars, workerVars, history>>

FeedCount(p) ==
    /\ ~Flushed(count, p)
    /\ count' = QueueFeed(count, p)
    /\ UNCHANGED <<callerVars, cpu_count, test_queue, print_queue, passed,
                   total, hpc, nspawn, all_joined, out>>
    /\ UNCHANGED <<aggVars, workerVars, history>>

Feeder(p) ==
    \/ FeedTestQueue(p)
    \/ FeedPrintQueue(p)
    \/ FeedPassed(p)
    \/ FeedCount(p)

\* ---------------------------------------------------- _execute_print_queue
\* while not proceses_joined[0]:
PrintLoop ==
    /\ apc = "loop"
    /\ apc' = IF proceses_joined THEN "done" ELSE "get_txt"
    /\ UNCHANGED <<callerVars, cpu_count, queues, total, hpc, nspawn,
                   all_joined, out, txt, passed_msg, passed_str, i,
                   proceses_joined, counts_per_update>>
    /\ UNCHANGED <<workerVars, history>>

\* except queue.Empty: print(passed_str); return True
OnEmpty == Append(out, Line("PassedStr", Len(passed_str), 0))

\* Variant of PrintGetTxt with a slip: an empty print_queue is passed over
\* and the print process goes on to the pass queue.
PrintGetTxtSkips ==
    /\ apc = "get_txt"
    /\ IF QueueEmpty(print_queue)
       THEN UNCHANGED <<print_queue, txt>>
       ELSE /\ txt' = QueueFront(print_queue)
            /\ print_queue' = QueueRest(print_queue)
    /\ apc' = "get_passed"
    /\ UNCHANGED <<callerVars, cpu_count, test_queue, passed, count, total,
                   hpc, nspawn, all_joined, passed_msg, passed_str, i,
                   proceses_joined, counts_per_update, out>>
    /\ UNCHANGED <<workerVars, history>>

\* txt = print_q.get(True, time_out_sec)
PrintGetTxt ==
    /\ apc = "get_txt"
    /\ IF QueueEmpty(print_queue)
       THEN /\ out' = OnEmpty
            /\ apc' = "done"
            /\ UNCHANGED <<print_queue, txt>>
       ELSE /\ txt' = QueueFront(print_queue)
            /\ print_queue' = QueueRest(print_queue)
            /\ apc' = "get_passed"
            /\ UNCHANGED out
    /\ UNCHANGED <<callerVars, cpu_count, test_queue, passed, count, total,
                   hpc, nspawn, all_joined, passed_msg, passed_str, i,
                   proceses_joined, counts_per_update>>
    /\ UNCHANGED <<workerVars, history>>

\* Variant of PrintGetPassed with a slip: the get has no timeout.
PrintGetPassedNoTimeout ==
    /\ apc = "get_passed"
    /\ ~QueueEmpty(passed)
    /\ passed_msg' = QueueFront(passed)
    /\ passed' = QueueRest(passed)
    /\ apc' = "handle"
    /\ UNCHANGED <<callerVars, cpu_count, test_queue, print_queue, count,
                   total, hpc, nspawn, all_joined, txt, passed_str, i,
                   proceses_joined, counts_per_update, out>>
    /\ UNCHANGED <<workerVars, history>>

\* passed = passed_q.get(True, time_out_sec)
PrintGetPassed ==
    /\ apc = "get_passed"
    /\ IF QueueEmpty(passed)
       THEN /\ out' = OnEmpty
            /\ apc' = "done"
            /\ UNCHANGED <<passed, passed_msg>>
       ELSE /\ passed_msg' = QueueFront(passed)
            /\ passed' = QueueRest(passed)
            /\ apc' = "handle"
            /\ UNCHANGED out
    /\ UNCHANGED <<callerVars, cpu_count, test_queue, print_queue, count,
                   total, hpc, nspawn, all_joined, txt, passed_str, i,
                   proceses_joined, counts_per_update>>
    /\ UNCHANGED <<workerVars, history>>

\* print(txt); passed_str += passed   (neither is None or "")
PrintHandle ==
    /\ apc = "handle"
    /\ out' = Append(out, txt)
    /\ passed_str' = Append(passed_str, passed_msg.a)
    /\ apc' = "count_get"
    /\ UNCHANGED <<callerVars, cpu_count, queues, total, hpc, nspawn,
                   all_joined, txt, passed_msg, i, proceses_joined,
                   counts_per_update>>
    /\ UNCHANGED <<workerVars, history>>

\* Variant of PrintCountGet with a slip: the counter is read but left in
\* its container.
PrintCountGetPeek ==
    /\ apc = "count_get"
    /\ ~QueueEmpty(count)
    /\ i' = QueueFront(count)
    /\ out' = IF QueueFront(count) % counts_per_update = 0
              THEN Append(out, Line("CurrentCount", QueueFront(count), 0))
              ELSE out
    /\ apc' = "count_put"
    /\ UNCHANGED <<callerVars, cpu_count, queues, total, hpc, nspawn,
                   all_joined, txt, passed_msg, passed_str, proceses_joined,
                   counts_per_update>>
    /\ UNCHANGED <<workerVars, history>>

\* i = count_container.get(); if (i % counts_per_update) == 0: print(...)
PrintCountGet ==
    /\ apc = "count_get"
    /\ ~QueueEmpty(count)
    /\ i' = QueueFront(count)
    /\ count' = QueueRest(count)
    /\ out' = IF QueueFront(count) % counts_per_update = 0
              THEN Append(out, Line("CurrentCount", QueueFront(count), 0))
              ELSE out
    /\ apc' = "count_put"
    /\ UNCHANGED <<callerVars, cpu_count, test_queue, print_queue, passed,
                   total, hpc, nspawn, all_joined, txt, passed_msg,
                   passed_str, proceses_joined, counts_per_update>>
    /\ UNCHANGED <<workerVars, history>>

\* Variant of PrintCountPut with a slip: i is put back as it was.
PrintCountPutSame ==
    /\ apc = "count_put"
    /\ count' = QueuePut(count, PrintProc, i)
    /\ apc' = "loop"
    /\ UNCHANGED <<callerVars, cpu_count, test_queue, print_queue, passed,
                   total, hpc, nspawn, all_joined, out, txt, passed_msg,
                   passed_str, i, proceses_joined, counts_per_update>>
    /\ UNCHANGED <<workerVars, history>>

\* count_container.put(i + 1)
PrintCountPut ==
    /\ apc = "count_put"
    /\ count' = QueuePut(count, PrintProc, i + 1)
    /\ apc' = "loop"
    /\ UNCHANGED <<callerVars, cpu_count, test_queue, print_queue, passed,
                   total, hpc, nspawn, all_joined, out, txt, passed_msg,
                   passed_str, i, proceses_joined, counts_per_update>>
    /\ UNCHANGED <<workerVars, history>>

PrintProcess ==
    \/ PrintLoop
    \/ PrintGetTxt
    \/ PrintGetPassed
    \/ PrintHandle
    \/ PrintCountGet
    \/ PrintCountPut

\* ----------------------------- the drains and the summary of both modes
\* while not self.print_queue.empty(): print(self.print_queue.get())
DrainPrintQueue(at, next) ==
    /\ hpc = at
    /\ IF QueueEmpty(print_queue)
       THEN /\ hpc' = next
            /\ UNCHANGED <<print_queue, out>>
       ELSE /\ out' = Append(out, QueueFront(print_queue))
            /\ print_queue' = QueueRest(print_queue)
            /\ UNCHANGED hpc
    /\ UNCHANGED <<callerVars, cpu_count, test_queue, passed, count, total,
                   nspawn, all_joined>>
    /\ UNCHANGED <<aggVars, workerVars, history>>

\* while not self.passed.empty():
\*     print(self.passed.get())
DrainPassed(at, mid, next) ==
    /\ hpc = at
    /\ IF QueueEmpty(passed)
       THEN /\ hpc' = next
            /\ UNCHANGED <<passed, out>>
       ELSE /\ out' = Append(out, QueueFront(passed))
            /\ passed' = QueueRest(passed)
            /\ hpc' = mid
    /\ UNCHANGED <<callerVars, cpu_count, test_queue, print_queue, count,
                   total, nspawn, all_joined>>
    /\ UNCHANGED <<aggVars, workerVars, history>>

\*     self.count.put(self.count.get() + 1)
\* count.get() waits until the counter's integer has reached the pipe.
DrainCount(mid, at) ==
    /\ hpc = mid
    /\ ~QueueEmpty(count)
    /\ count' = QueuePut(QueueRest(count), Harness, QueueFront(count) + 1)
    /\ hpc' = at
    /\ UNCHANGED <<callerVars, cpu_count, test_queue, print_queue, passed,
                   total, nspawn, all_joined, out>>
    /\ UNCHANGED <<aggVars, workerVars, history>>

\* print("passed {}/{}".format(self.count.get(), self.total)); return None
PrintSummary(at) ==
    /\ hpc = at
    /\ ~QueueEmpty(count)
    /\ out' = Append(out, Line("Summary", QueueFront(count), total))
    /\ count' = QueueRest(count)
    /\ hpc' = "done"
    /\ UNCHANGED <<callerVars, cpu_count, test_queue, print_queue, passed,
                   total, nspawn, all_joined>>
    /\ UNCHANGED <<aggVars, workerVars, history>>

\* ------------------------------------------------------ UnitTest.execute
Execute ==
    /\ hpc = "building"
    /\ hpc' = "sync_run"
    /\ wpc' = [wpc EXCEPT ![0] = "start"]
    /\ UNCHANGED <<callerVars, cpu_count, queues, total, nspawn, all_joined,
                   wtest, out>>
    /\ UNCHANGED <<aggVars, history>>

ExecutePrintQueue == DrainPrintQueue("sync_print", "sync_passed")
ExecutePassed == DrainPassed("sync_passed", "sync_count", "sync_summary")
ExecuteCount == DrainCount("sync_count", "sync_passed")
ExecuteSummary == PrintSummary("sync_summary")

\* ------------------------------------------------ UnitTest.execute_async
\* The value of tests_per_print the caller passes (the default is 200).
TestsPerPrintInputs == {2}

\* print("Executing with {} procssors.".format(self.PROCESSES))
ExecuteAsync ==
    /\ hpc = "building"
    /\ \E tests_per_print \in TestsPerPrintInputs :
         counts_per_update' = tests_per_print
    /\ out' = Append(out, Line("Executing", PROCESSES, 0))
    /\ hpc' = "spawn"
    /\ UNCHANGED <<callerVars, cpu_count, queues, total, nspawn, all_joined,
                   apc, txt, passed_msg, passed_str, i, proceses_joined>>
    /\ UNCHANGED <<workerVars, history>>

\* for n in range(max(self.PROCESSES, 1)): p = Process(...); p.start()
SpawnWorker ==
    /\ hpc = "spawn"
    /\ nspawn < WorkerCount
    /\ nspawn' = nspawn + 1
    /\ wpc' = [wpc EXCEPT ![nspawn + 1] = "start"]
    /\ UNCHANGED <<callerVars, cpu_count, queues, total, hpc, all_joined,
                   wtest, out>>
    /\ UNCHANGED <<aggVars, history>>

\* all_joined = [False]; x = Process(target=_execute_print_queue, ...);
\* x.start(): the new process works on its own copy of the list.
StartPrintProcess ==
    /\ hpc = "spawn"
    /\ nspawn = WorkerCount
    /\ all_joined' = FALSE
    /\ proceses_joined' = FALSE
    /\ apc' = "loop"
    /\ hpc' = "join_workers"
    /\ UNCHANGED <<callerVars, cpu_count, queues, total, nspawn, out, txt,
                   passed_msg, passed_str, i, counts_per_update>>
    /\ UNCHANGED <<workerVars, history>>

\* Variant of JoinWorkers with a slip: only the first process is joined.
JoinWorkersFirstOnly ==
    /\ hpc = "join_workers"
    /\ Finished(1)
    /\ hpc' = "set_all_joined"
    /\ UNCHANGED <<callerVars, cpu_count, queues, total, nspawn, all_joined,
                   out>>
    /\ UNCHANGED <<aggVars, workerVars, history>>

\* for p in processes: p.join()
JoinWorkers ==
    /\ hpc = "join_workers"
    /\ \A w \in 1..WorkerCount : Exited(w)
    /\ hpc' = "set_all_joined"
    /\ UNCHANGED <<callerVars, cpu_count, queues, total, nspawn, all_joined,
                   out>>
    /\ UNCHANGED <<aggVars, workerVars, history>>

\* all_joined[0] = True; print("all_joined is true")
SetAllJoined ==
    /\ hpc = "set_all_joined"
    /\ all_joined' = TRUE
    /\ out' = Append(out, Line("all_joined is true", 0, 0))
    /\ hpc' = "join_x"
    /\ UNCHANGED <<callerVars, cpu_count, queues, total, nspawn>>
    /\ UNCHANGED <<aggVars, workerVars, history>>

\* Variant of JoinPrintProcess with a slip: x.join() is missing.
JoinPrintProcessNoJoin ==
    /\ hpc = "join_x"
    /\ out' = Append(out, Line("x is joined", 0, 0))
    /\ hpc' = "async_print"
    /\ UNCHANGED <<callerVars, cpu_count, queues, total, nspawn, all_joined>>
    /\ UNCHANGED <<aggVars, workerVars, history>>

\* x.join(); print("x is joined")
JoinPrintProcess ==
    /\ hpc = "join_x"
    /\ PrintExited
    /\ out' = Append(out, Line("x is joined", 0, 0))
    /\ hpc' = "async_print"
    /\ UNCHANGED <<callerVars, cpu_count, queues, total, nspawn, all_joined>>
    /\ UNCHANGED <<aggVars, workerVars, history>>

ExecuteAsyncPrintQueue == DrainPrintQueue("async_print", "async_passed")
ExecuteAsyncPassed ==
    DrainPassed("async_passed", "async_count", "async_summary")
ExecuteAsyncCount == DrainCount("async_count", "async_passed")
ExecuteAsyncSummary == PrintSummary("async_summary")

\* ---------------------------------------------------------- multi_init
\* A value of the dict: one that iter() accepts, with the elements iteration
\* yields in order, or one on which iter() raises TypeError.
RhsScalar(v) == [iterable |-> FALSE, items |-> <<>>, val |-> v]
RhsList(items) == [iterable |-> TRUE, items |-> items, val |-> IntVal(0)]

\* i = iter(equal_rhs)
Iter(equal_rhs) ==
    IF equal_rhs.iterable THEN [st |-> "ok", items |-> equal_rhs.items]
    ELSE [st |-> "TypeError", items |-> <<>>]

\* cls(func_ptr, equal_func_ptr, rhs, func_name, *func_arg)
MultiInitEntry(rhs, func_arg) ==
    TestEntry(0, "return_1_increment", "int.__eq__", rhs, func_arg)

\* ret_val.add(...): TestEntry defines neither __eq__ nor __hash__, so a new
\* object is never equal to one in the set.  The set is kept as the sequence
\* of its objects in creation order.
SetAdd(set, obj) == Append(set, obj)

RECURSIVE AddEach(_, _, _)
AddEach(set, items, func_arg) ==
    IF items = <<>> THEN set
    ELSE AddEach(SetAdd(set, MultiInitEntry(RhsScalar(Head(items)), func_arg)),
                 Tail(items), func_arg)

\* Variant of MultiInitBody with a slip: the continue is missing, so an
\* expanded value is added once more as a whole.
MultiInitBodyNoContinue(set, func_arg, equal_rhs, get_each) ==
    LET expanded == IF get_each /\ Iter(equal_rhs).st = "ok"
                    THEN AddEach(set, Iter(equal_rhs).items, func_arg)
                    ELSE set
    IN SetAdd(expanded, MultiInitEntry(equal_rhs, func_arg))

\* One iteration of for func_arg, equal_rhs in func_arg_2_equal_rhs.items()
MultiInitBody(set, func_arg, equal_rhs, get_each) ==
    IF get_each /\ Iter(equal_rhs).st = "ok"
    THEN AddEach(set, Iter(equal_rhs).items, func_arg)
    ELSE SetAdd(set, MultiInitEntry(equal_rhs, func_arg))

MultiInitItem ==
    /\ mpc = "loop"
    /\ mnext <= Len(func_arg_2_equal_rhs)
    /\ ret_val' = MultiInitBody(ret_val, func_arg_2_equal_rhs[mnext].func_arg,
                                func_arg_2_equal_rhs[mnext].equal_rhs,
                                get_each_equal_rhs)
    /\ mnext' = mnext + 1
    /\ UNCHANGED <<func_arg_2_equal_rhs, get_each_equal_rhs, mpc, caller_set,
                   dictVars>>
    /\ UNCHANGED <<cpu_count, queues, total, hpc, nspawn, all_joined, out>>
    /\ UNCHANGED <<aggVars, workerVars, history>>

\* return ret_val
MultiInitReturn ==
    /\ mpc = "loop"
    /\ mnext > Len(func_arg_2_equal_rhs)
    /\ mpc' = "returned"
    /\ UNCHANGED <<func_arg_2_equal_rhs, get_each_equal_rhs, ret_val, mnext, caller_set,
                   dictVars>>
    /\ UNCHANGED <<cpu_count, queues, total, hpc, nspawn, all_joined, out>>
    /\ UNCHANGED <<aggVars, workerVars, history>>

\* ------------------------------------------- LiteUnitTest.py: UnitTest
\* self.in2out[f_arg] = value_set: a key already in the dict keeps its place
\* and gets the new value, a new key goes to the end.
DictSet(d, key, value) ==
    IF \E k \in 1..Len(d) : d[k].key = key
    THEN [k \in 1..Len(d) |->
            IF d[k].key = key THEN [key |-> key, value |-> value] ELSE d[k]]
    ELSE Append(d, [key |-> key, value |-> value])

\* add_test(func, f_arg, expected_str_out); func takes one argument, so
\* func_1_arg is func itself.
DictAddTest(funcs, args, expecteds, max) ==
    /\ lut_pc = "building"
    /\ lut_total < max
    /\ \E func \in funcs, f_arg \in args, expected_str_out \in expecteds :
         in2out' = DictSet(in2out, f_arg,
                           [func |-> func, exp_out |-> Str(expected_str_out)])
    /\ lut_total' = lut_total + 1
    /\ UNCHANGED <<lut_passed, lut_pc, lut_next, lut_out>>
    /\ UNCHANGED <<caller_set, multiInitVars, cpu_count, queues, total, hpc,
                   nspawn, all_joined, out>>
    /\ UNCHANGED <<aggVars, workerVars, history>>

\* execute() is called
DictExecute ==
    /\ lut_pc = "building"
    /\ lut_pc' = "executing"
    /\ UNCHANGED <<in2out, lut_total, lut_passed, lut_next, lut_out>>
    /\ UNCHANGED <<caller_set, multiInitVars, cpu_count, queues, total, hpc,
                   nspawn, all_joined, out>>
    /\ UNCHANGED <<aggVars, workerVars, history>>

\* One iteration of for func_arg, func_out_pair in self.in2out.items(): the
\* line of the try or of the except Exception handler, then the blank line
\* of finally.  An exception that is no Exception leaves execute().
DictExecuteItem ==
    /\ lut_pc = "executing"
    /\ lut_next <= Len(in2out)
    /\ LET func_arg == in2out[lut_next].key
           func == in2out[lut_next].value.func
           exp_out == in2out[lut_next].value.exp_out
           output == CallFunc(func, <<func_arg>>)
       IN  IF output.st = "ok"
           THEN IF Str(output.val) = exp_out
                THEN /\ lut_passed' = lut_passed + 1
                     /\ lut_out' = lut_out \o <<Line("Passed", lut_next, 0),
                                               Line("Blank", 0, 0)>>
                     /\ lut_pc' = lut_pc
                ELSE /\ lut_out' = lut_out \o <<Line("Mismatch", lut_next, 0),
                                               Line("Blank", 0, 0)>>
                     /\ UNCHANGED <<lut_passed, lut_pc>>
           ELSE IF output.st = "Exception"
                THEN /\ lut_out' = lut_out \o <<Line("Failed", lut_next, 0),
                                               Line("Blank", 0, 0)>>
                     /\ UNCHANGED <<lut_passed, lut_pc>>
                ELSE /\ lut_out' = Append(lut_out, Line("Blank", 0, 0))
                     /\ lut_pc' = "raised"
                     /\ UNCHANGED lut_passed
    /\ lut_next' = lut_next + 1
    /\ UNCHANGED <<in2out, lut_total>>
    /\ UNCHANGED <<caller_set, multiInitVars, cpu_count, queues, total, hpc,
                   nspawn, all_joined, out>>
    /\ UNCHANGED <<aggVars, workerVars, history>>

\* print("Passed {}/{}".format(self.passed, self.total))
DictExecuteSummary ==
    /\ lut_pc = "executing"
    /\ lut_next > Len(in2out)
    /\ lut_out' = Append(lut_out, Line("Summary", lut_passed, lut_total))
    /\ lut_pc' = "done"
    /\ UNCHANGED <<in2out, lut_total, lut_passed, lut_next>>
    /\ UNCHANGED <<caller_set, multiInitVars, cpu_count, queues, total, hpc,
                   nspawn, all_joined, out>>
    /\ UNCHANGED <<aggVars, workerVars, history>>

\* ------------------------------------------------------------ the inputs
\* add_test calls of the demo: test_func with 1, 2 and "2".
DemoFuncs == {"test_func"}
DemoExpected == {Scalar(IntVal(1)), Scalar(IntVal(2)), Scalar(StrVal("2"))}
DemoArgs == {IntVal(1), IntVal(2), StrVal("2")}

\* Entries built by the caller for add_tests (their id is given on enqueue):
\* a target that raises SystemExit, the predicate str_in_set, and a target
\* whose output is not the expected one.
ExitEntry == TestEntry(0, "exit", "in_set_wrapper", {"0"}, <<IntVal(0)>>)
StrInSetEntry == TestEntry(0, "test_func", "str_in_set", {"2"}, <<IntVal(2)>>)
MismatchEntry ==
    TestEntry(0, "return_1_increment", "in_set_wrapper", {"1"}, <<IntVal(1)>>)
SyncPool == {ExitEntry, StrInSetEntry, MismatchEntry}

\* The smaller inputs of the concurrent runs.
SmallExpected == {Scalar(IntVal(2))}
SmallArgs == {IntVal(2), StrVal("2")}
AsyncPool == {ExitEntry}

\* ---------------------------------------------------- the specifications
\* The whole program: build up to max tests, then execute() or
\* execute_async().
Program(max) ==
    \/ AddTest(DemoFuncs, SmallExpected, SmallArgs, max)
    \/ AddTests(AsyncPool, max)
    \/ Execute
    \/ ExecutePrintQueue
    \/ ExecutePassed
    \/ ExecuteCount
    \/ ExecuteSummary
    \/ ExecuteAsync
    \/ SpawnWorker
    \/ StartPrintProcess
    \/ JoinWorkers
    \/ SetAllJoined
    \/ JoinPrintProcess
    \/ ExecuteAsyncPrintQueue
    \/ ExecuteAsyncPassed
    \/ ExecuteAsyncCount
    \/ ExecuteAsyncSummary
    \/ \E w \in Procs : Worker(w)
    \/ PrintProcess
    \/ \E p \in Feeders : Feeder(p)

\* Every host, few tests.
Next == Program(MaxAsyncTests)
Spec == Init /\ [][Next]_vars

\* Hosts on which max(PROCESSES, 1) is 1: a single worker process, more tests.
InitSmallHost == Init /\ WorkerCount = 1
NextSmallHost == Program(MaxTests)
SpecSmallHost == InitSmallHost /\ [][NextSmallHost]_vars

\* The host with two worker processes.
InitTwoWorkers == Init /\ WorkerCount = 2
SpecTwoWorkers == InitTwoWorkers /\ [][Next]_vars

\* The synchronous path alone, over the demo's inputs.  It never reads
\* PROCESSES, so one host stands for all.
InitSync == Init /\ cpu_count = 1

NextSync ==
    \/ AddTest(DemoFuncs, DemoExpected, DemoArgs, MaxTests)
    \/ AddTest(DemoFuncs, {CallerSetArg}, {IntVal(2)}, MaxTests)
    \/ AddTests(SyncPool, MaxTests)
    \/ Execute
    \/ Worker(0)
    \/ ExecutePrintQueue
    \/ ExecutePassed
    \/ ExecuteCount
    \/ ExecuteSummary
    \/ Feeder(Harness)

SpecSync == InitSync /\ [][NextSync]_vars

\* A call of multi_init alone, over dicts of up to MaxDictLen items whose
\* keys are the tuples (0,), (2,), ... of the demo's test_dict_ret_inc and
\* whose values are an int or a list of up to MaxRhsLen ints.
RhsElems == {IntVal(1), IntVal(3)}
RhsInputs ==
    {RhsScalar(IntVal(1))} \cup
    UNION { { RhsList(l) : l \in [1..n -> RhsElems] } : n \in 0..MaxRhsLen }
DictInputs ==
    UNION { { [k \in 1..n |-> [func_arg |-> <<IntVal(2 * (k - 1))>>,
                               equal_rhs |-> v[k]]] : v \in [1..n -> RhsInputs] }
            : n \in 0..MaxDictLen }

InitMultiInit ==
    /\ InitProgram
    /\ InitLiteUnitTest
    /\ cpu_count = 1
    /\ func_arg_2_equal_rhs \in DictInputs
    /\ get_each_equal_rhs \in BOOLEAN
    /\ ret_val = <<>>
    /\ mnext = 1
    /\ mpc = "loop"

NextMultiInit ==
    \/ MultiInitItem
    \/ MultiInitReturn

SpecMultiInit == InitMultiInit /\ [][NextMultiInit]_vars

\* The dict-based harness of LiteUnitTest.py alone, over its demo's
\* test_func with the arguments 5, 1 and "2" and the expected outputs "2"
\* and 1.
DictArgs == {IntVal(5), IntVal(1), StrVal("2")}
DictExpected == {StrVal("2"), IntVal(1)}

InitDict == Init /\ cpu_count = 1

NextDict ==
    \/ DictAddTest(DemoFuncs, DictArgs, DictExpected, MaxDictTests)
    \/ DictExecute
    \/ DictExecuteItem
    \/ DictExecuteSummary

SpecDict == InitDict /\ [][NextDict]_vars

\* ================================================================ claims
\* What the claims speak of, read off the entries and stdout.
AsyncDone == hpc = "done" /\ nspawn > 0
SyncDone == hpc = "done" /\ nspawn = 0
Summary == out[Len(out)]
CountIn(seq, x) == Cardinality({ k \in 1..Len(seq) : seq[k] = x })
\* The items put to a queue and not yet taken from it, buffered or sent.
RECURSIVE Buffered(_, _)
Buffered(q, n) ==
    IF n < 0 THEN <<>> ELSE Buffered(q, n - 1) \o q.buffer[n]
QueueItems(q) == q.pipe \o Buffered(q, PrintProc)
QueueSize(q) == Len(QueueItems(q))
TargetRaises(e) == CallFunc(e.func_ptr, e.func_arg).st # "ok"
PredicateResult(e) ==
    CallEqual(e.equal_func_ptr, CallFunc(e.func_ptr, e.func_arg).val, e.equal_func_rhs)
PredicateRaises(e) == ~TargetRaises(e) /\ PredicateResult(e).st # "ok"
PredicateTrue(e) ==
    ~TargetRaises(e) /\ PredicateResult(e).st = "ok" /\ PredicateResult(e).truth
PredicateFalse(e) ==
    ~TargetRaises(e) /\ PredicateResult(e).st = "ok" /\ ~PredicateResult(e).truth
IsFailLine(l) == l.kind \in {"Failed", "Error"}
IsPassLine(l) == l.kind = "Passed"
IsResultLine(l) == IsFailLine(l) \/ IsPassLine(l)
ResultLines == SelectSeq(out, IsResultLine)
\* process w has just run TestEntry.execute on wtest[w]
Executes(w) == wpc[w] = "execute" /\ wpc'[w] # "execute"

\* C1: when execute_async has completed, every enqueued descriptor has been
\* executed exactly once and none is left in the work queue.
C1_ExactlyOnce ==
    AsyncDone => /\ \A d \in 1..total : executed[d] = 1
                 /\ QueueSize(test_queue) = 0

\* C2: in every reachable state no descriptor has been delivered to, or
\* executed by, more than one worker.
C2_SingleDelivery == \A d \in Ids : delivered[d] <= 1 /\ executed[d] <= 1

\* Two workers saw the queue non-empty for the same single descriptor; one of
\* them has taken it and the other is at its get().
C2_Witness ==
    \E w1, w2 \in 1..MaxWorkerCount :
        /\ w1 # w2
        /\ wpc[w1] = "execute"
        /\ wpc[w2] = "get"
        /\ QueueSize(test_queue) = 0
        /\ delivered[1] = 1

\* C3: with targets that all return or raise an Exception, execute_async is
\* never stuck short of its summary: until the harness is done, some process
\* can take a step.
C3_NeverStuck ==
    /\ hpc # "building"
    /\ nspawn > 0
    /\ \A d \in 1..total : ~TestEntryExecute(added[d]).escapes
    => (hpc = "done" \/ ENABLED Next)

\* C4: the pass count of execute_async's summary is the number of descriptors
\* whose execution produced a Pass, each Pass message having been counted once,
\* by the print process (then its id is in passed_str) or by the final drain
\* (then its line is on stdout), never both and never neither.
C4_PassCount ==
    AsyncDone =>
        LET PassIds == { d \in 1..total : executed[d] >= 1 /\ PredicateTrue(added[d]) } IN
        /\ Summary.kind = "Summary"
        /\ Summary.a = Cardinality(PassIds)
        /\ \A d \in PassIds :
             CountIn(passed_str, d) + CountIn(out, Line("Passed", d, 0)) = 1

\* A finished concurrent run in which the print process counted one Pass and
\* the final drain another.
C4_Witness ==
    /\ AsyncDone
    /\ Len(passed_str) = 1
    /\ \E k \in 1..Len(out) : out[k].kind = "Passed"
    /\ Summary.a = 2

\* C5: every Fail message a worker published during execute_async is on
\* stdout exactly once when the summary has been printed.
C5_FailuresPrinted ==
    AsyncDone =>
        \A d \in 1..total :
            (executed[d] >= 1 /\ TestEntryExecute(added[d]).chan = "print_queue") =>
                CountIn(out, Line("Error", d, 0)) + CountIn(out, Line("Failed", d, 0)) = 1

\* C6 as stated: execute() prints the result lines in enqueue order.
C6_EnqueueOrder ==
    SyncDone =>
        \A j, k \in 1..Len(ResultLines) :
            j < k => ResultLines[j].a < ResultLines[k].a

\* The demo: add_test(test_func, 2, 2); add_test(test_func, "2", "2");
\* add_test(test_func, 1, 1).
DemoScenario ==
    <<lazy_init(1, "test_func", StrSet(Scalar(IntVal(2))), <<IntVal(2)>>),
      lazy_init(2, "test_func", StrSet(Scalar(StrVal("2"))), <<StrVal("2")>>),
      lazy_init(3, "test_func", StrSet(Scalar(IntVal(1))), <<IntVal(1)>>)>>

\* C7: execute() ends by printing passed P/T with P the number of added
\* descriptors whose target returns and whose predicate is true and T the
\* number added; for the demo's three tests that is passed 1/3.
C7_Summary ==
    SyncDone =>
        /\ Summary = Line("Summary",
                          Cardinality({ d \in 1..Len(added) : PredicateTrue(added[d]) }),
                          Len(added))
        /\ added = DemoScenario => Summary = Line("Summary", 1, 3)

\* C8: total is the number of entries added and, while building, the number
\* of descriptors on the work queue; no step of execute() or execute_async()
\* changes it.
C8_Total ==
    /\ [](total = Len(added)
            /\ (hpc = "building" => total = QueueSize(test_queue)))
    /\ [][hpc # "building" => total' = total]_vars

\* A finished run after add_test and add_tests have both been used.
C8_Witness ==
    /\ hpc = "done"
    /\ total >= 2
    /\ \E d \in 1..total : added[d].func_ptr = "exit"
    /\ \E d \in 1..total : added[d].func_ptr = "test_func"

\* C9: executing a descriptor whose target or predicate raises publishes one
\* Fail message on the failure queue and nothing on the pass queue, leaves the
\* counter alone, and the worker goes on with its loop.
C9_RaiseContained ==
    [][\A w \in Procs :
         (Executes(w) /\ (TargetRaises(wtest[w]) \/ PredicateRaises(wtest[w]))) =>
             /\ print_queue' = [print_queue EXCEPT !.buffer[w] =
                                   Append(@, Line("Error", wtest[w].id, 0))]
             /\ passed' = passed
             /\ count' = count
             /\ wpc'[w] = "check"]_vars

\* C10: executing a descriptor whose target returns publishes exactly one
\* message on exactly one of the two queues: on the pass queue when the
\* predicate is true, on the failure queue when it is false.
C10_OneChannel ==
    [][\A w \in Procs :
         (Executes(w) /\ ~TargetRaises(wtest[w])) =>
             /\ QueueSize(passed') >= QueueSize(passed)
             /\ QueueSize(print_queue') >= QueueSize(print_queue)
             /\ (QueueSize(passed') - QueueSize(passed))
                  + (QueueSize(print_queue') - QueueSize(print_queue)) = 1
             /\ PredicateTrue(wtest[w]) =>
                  passed' = [passed EXCEPT !.buffer[w] =
                               Append(@, Line("Passed", wtest[w].id, 0))]
             /\ PredicateFalse(wtest[w]) =>
                  print_queue' = [print_queue EXCEPT !.buffer[w] =
                                    Append(@, Line("Failed", wtest[w].id, 0))]]_vars

\* Both cases have happened: a Pass is on the pass queue and a mismatch on
\* the failure queue.
C10_Witness ==
    /\ \E k \in 1..QueueSize(passed) : QueueItems(passed)[k].kind = "Passed"
    /\ \E k \in 1..QueueSize(print_queue) :
         QueueItems(print_queue)[k].kind = "Failed"

\* What execute() has printed from print_queue, and what is still on it: in
\* the synchronous path print_queue is drained whole, before passed.
FromPrintQueue(l) == l.kind \in {"Failed", "Error", "PidStart", "PidJoin"}
PrintQueuePlaced == QueueSize(print_queue) + Len(SelectSeq(out, FromPrintQueue))
\* The entry ends in the else branch or in the except Exception handler.
FailOutcome(e) ==
    LET output == CallFunc(e.func_ptr, e.func_arg) IN
    IF output.st # "ok" THEN output.st = "Exception"
    ELSE IF PredicateResult(e).st # "ok" THEN PredicateResult(e).st = "Exception"
         ELSE ~PredicateResult(e).truth
FailOutcomes == Cardinality({ d \in 1..total : executed[d] > 0 /\ FailOutcome(added[d]) })
\* C11 as stated: print_queue carries only Fail reports, so the messages ever
\* placed on it are as many as the Fail outcomes, and execute() prints as many
\* result messages as there are descriptors.
C11_OnlyFailReports ==
    /\ PrintQueuePlaced = FailOutcomes
    /\ SyncDone => Len(ResultLines) = total

\* C12 as stated: the worker count printed in "Executing with ... processors"
\* is the number of worker processes execute_async starts, and that number is
\* cpu_count - 2 floored at 1.
C12_ReportedIsSpawned ==
    (nspawn > 0 /\ hpc \notin {"building", "spawn"}) =>
        /\ nspawn = (IF cpu_count - 2 < 1 THEN 1 ELSE cpu_count - 2)
        /\ \E k \in 1..Len(out) : out[k] = Line("Executing", nspawn, 0)

\* What the claim counts: the (args, expected) pairs of the dict, an iterable
\* expected value standing for one pair per element when expansion is on.
Expands(item) == get_each_equal_rhs /\ item.equal_rhs.iterable
PairsOf(item) == IF Expands(item) THEN Len(item.equal_rhs.items) ELSE 1
RECURSIVE SumPairs(_)
SumPairs(n) == IF n = 0 THEN 0 ELSE SumPairs(n - 1) + PairsOf(func_arg_2_equal_rhs[n])
EntriesWith(func_arg, rhs) ==
    Cardinality({ k \in 1..Len(ret_val) :
                    ret_val[k].func_arg = func_arg /\ ret_val[k].equal_func_rhs = rhs })

\* C13: multi_init returns without raising; with expansion off the result has
\* one descriptor per (args, expected) pair, with expansion on one descriptor
\* per (args, element) pair of each iterable expected value and exactly one
\* for each expected value that is not iterable.
C13_MultiInit ==
    /\ mpc = "loop" => ENABLED NextMultiInit
    /\ mpc = "returned" =>
        /\ Len(ret_val) = SumPairs(Len(func_arg_2_equal_rhs))
        /\ \A n \in 1..Len(func_arg_2_equal_rhs) :
             LET item == func_arg_2_equal_rhs[n] IN
             IF Expands(item)
             THEN \A e \in RhsElems :
                    EntriesWith(item.func_arg, RhsScalar(e))
                        = CountIn(item.equal_rhs.items, e)
             ELSE /\ EntriesWith(item.func_arg, item.equal_rhs) = 1
                  /\ Cardinality({ k \in 1..Len(ret_val) :
                                     ret_val[k].func_arg = item.func_arg }) = 1

C13_Witness ==
    /\ mpc = "returned"
    /\ get_each_equal_rhs
    /\ \E n, m \in 1..Len(func_arg_2_equal_rhs) :
         /\ func_arg_2_equal_rhs[n].equal_rhs.iterable
         /\ Len(func_arg_2_equal_rhs[n].equal_rhs.items) = 2
         /\ ~func_arg_2_equal_rhs[m].equal_rhs.iterable
    /\ Len(ret_val) = 3

\* C14 as stated: a worker that attempts to take an entry while the work
\* queue is empty (nothing in the pipe, nothing left for a feeder to send)
\* does not wait: it can take its next step, leaving the loop.
C14_WorkerNeverBlocks ==
    \A w \in Procs :
        (wpc[w] = "get" /\ QueueSize(test_queue) = 0) => ENABLED Worker(w)

\* C15 as stated: the flag is shared, so once the harness has set it the
\* print process's next evaluation of its loop condition reads true and the
\* process leaves the loop.
C15_FlagShared ==
    [][(apc = "loop" /\ all_joined /\ apc' # apc) => apc' = "done"]_vars

AllWorkersFinished == \A w \in 1..WorkerCount : Finished(w)

\* C16: the termination flag is false at first, the harness writes it once,
\* from false to true, after every worker process has ended and been joined,
\* and in no state is it true (in either process) while a worker still runs.
C16_FlagAfterJoin ==
    /\ ~all_joined
    /\ []((all_joined \/ proceses_joined) => AllWorkersFinished)
    /\ [][all_joined' # all_joined =>
            /\ ~all_joined /\ all_joined'
            /\ hpc = "set_all_joined"
            /\ nspawn = WorkerCount
            /\ AllWorkersFinished]_vars

C16_Witness ==
    /\ all_joined
    /\ WorkerCount = 2
    /\ executed[1] = 1
    /\ apc # "done"

\* the timed get the print process is at finds its queue empty
TimesOut ==
    \/ apc = "get_txt" /\ QueueEmpty(print_queue)
    \/ apc = "get_passed" /\ QueueEmpty(passed)

\* C17: the print process never raises and never waits forever: while it
\* runs it always has a step, or waits in count.get() for an integer that a
\* feeder thread is about to send, and a timed get that finds its queue empty ends
\* the process with the pass text accumulated so far printed, whatever the
\* flag says and whether or not workers still run.
C17_TimeoutIsControlFlow ==
    /\ [](apc \notin {"idle", "done"} =>
            \/ ENABLED PrintProcess
            \/ apc = "count_get" /\ \E p \in Feeders : ENABLED FeedCount(p))
    /\ [][(TimesOut /\ apc' # apc) =>
            /\ apc' = "done"
            /\ out' = Append(out, Line("PassedStr", Len(passed_str), 0))]_vars

C17_Witness ==
    /\ apc = "done"
    /\ ~all_joined
    /\ \E w \in 1..WorkerCount : ~Finished(w)
    /\ Len(passed_str) = 1
    /\ out[Len(out)] = Line("PassedStr", 1, 0)

HarnessDrains ==
    hpc \in {"sync_print", "sync_passed", "sync_count", "sync_summary",
             "async_print", "async_passed", "async_count", "async_summary"}

\* C18: the counter is never read-modify-written by two processes at once:
\* the harness is in its final drain only when the print process has ended (or
\* was never started), a step that takes the integer from the counter or puts
\* one to it is a step of the print process while the harness waits in its
\* joins, or a step of the harness in its drain, and no worker takes or puts.
C18_CounterOneWriter ==
    /\ [](HarnessDrains => apc \in {"idle", "done"})
    /\ [][QueueItems(count)' # QueueItems(count) =>
            /\ wpc' = wpc
            /\ \/ /\ apc \in {"count_get", "count_put"} /\ apc' # apc
                  /\ hpc \in {"join_workers", "set_all_joined", "join_x"}
                  /\ hpc' = hpc
               \/ /\ HarnessDrains
                  /\ apc' = apc]_vars

C18_Witness ==
    /\ hpc = "async_passed"
    /\ Len(passed_str) = 1
    /\ ~QueueEmpty(passed)
    /\ QueueItems(count) = <<1>>

\* C19 as stated: for each pass item the print process adds exactly 1 to the
\* counter, and it prints a "Current count" line exactly when the value after
\* the increment is a multiple of tests_per_print.
C19_ProgressAfterIncrement ==
    [][/\ (apc = "count_get" /\ apc' = "count_put") =>
            ((out' # out) <=> ((QueueFront(count) + 1) % counts_per_update = 0))
       /\ (apc = "count_put" /\ apc' # apc) =>
            QueueItems(count)' = <<i + 1>>]_vars

\* C20 as stated: a call of add_test leaves the caller's set as it was.
C20_CallerSetUnchanged ==
    [][total' # total => caller_set' = caller_set]_vars

\* Pass messages put on utest.passed so far: those still on the queue, the
\* one the print process holds, those it has appended to passed_str, and
\* those the harness's drain has printed.
PassPublished ==
    QueueSize(passed) + (IF apc = "handle" THEN 1 ELSE 0) + Len(passed_str)
        + Len(SelectSeq(out, IsPassLine))

\* C21: the counter container never holds more than one integer, the value
\* in it (or about to be put back by the print process) is at most the number
\* of Pass messages published so far, and that number is at most total.
C21_CounterBounded ==
    /\ QueueSize(count) <= 1
    /\ \A k \in 1..QueueSize(count) : QueueItems(count)[k] <= PassPublished
    /\ apc = "count_put" => i + 1 <= PassPublished
    /\ PassPublished <= total

C21_Witness ==
    /\ hpc = "async_summary"
    /\ QueueItems(count) = <<2>>
    /\ PassPublished = 2
    /\ total = 2
    /\ Len(passed_str) = 1

\* The print_queue messages the print process has taken: those it printed
\* (they stand on stdout before "x is joined") and the one in txt, printed or
\* not.  Every message on print_queue is distinct (a PID or an entry id).
JoinedAt ==
    IF \E k \in 1..Len(out) : out[k].kind = "x is joined"
    THEN CHOOSE k \in 1..Len(out) : out[k].kind = "x is joined"
    ELSE Len(out) + 1
AggTxtTaken ==
    IF nspawn = 0 THEN {}
    ELSE { out[k] : k \in { n \in 1..Len(out) :
                                n < JoinedAt /\ FromPrintQueue(out[n]) } }
         \cup (IF txt # NoLine THEN {txt} ELSE {})
\* The passes the print process has counted: the counter has been put back.
AggCounted ==
    Len(passed_str) - (IF apc \in {"count_get", "count_put"} THEN 1 ELSE 0)
AggPassTaken == Len(passed_str) + (IF apc = "handle" THEN 1 ELSE 0)

\* C22: the print process takes one print_queue message and then one pass
\* message per iteration: the passes it has counted (and those it has taken)
\* are never more than the print_queue messages it has taken, and never fewer
\* by more than one.
C22_Lockstep ==
    /\ AggCounted <= AggPassTaken
    /\ AggPassTaken <= Cardinality(AggTxtTaken)
    /\ Cardinality(AggTxtTaken) <= AggCounted + 1

C22_Witness ==
    /\ apc = "done"
    /\ AggCounted = 1
    /\ Cardinality(AggTxtTaken) = 2
    /\ txt.kind = "Error"

\* The tests execute() of the dict-based harness has run.
DictTestsRun ==
    Len(SelectSeq(lut_out, LAMBDA l : l.kind \in {"Passed", "Mismatch", "Failed"}))

\* C23 as stated: when execute() of the dict-based harness has printed its
\* summary, it has run as many tests as add_test was called (total), and the
\* T of "Passed P/T" is the number of tests run.
C23_DictRunsAll ==
    lut_pc = "done" =>
        /\ DictTestsRun = lut_total
        /\ lut_out[Len(lut_out)] = Line("Summary", lut_passed, DictTestsRun)

====
